---- MODULE Spec2Model ----
(***************************************************************************)
(* Model of the Electron main process of Cartera San Benito Format         *)
(* (src/src/main/main.js): the path handling of a conversion request, the  *)
(* backend resolver, the supervision of the Python child process, the      *)
(* 'processor:run' IPC handler and the consent-gated auto-updater.         *)
(*                                                                         *)
(* Text is modelled as a sequence of one-character strings, so that        *)
(* path.extname, path.dirname, path.parse, path.join, toLowerCase and      *)
(* String.includes are computed character by character.                    *)
(***************************************************************************)
EXTENDS Integers, Sequences, FiniteSets, TLC

VARIABLES
    platform,       \* process.platform
    isPackaged,     \* app.isPackaged
    fsExists,       \* the paths for which fs.existsSync answers true
    jobs,           \* one record per 'processor:run' invocation
    sent,           \* per job: the events handed to sendToRenderer, in order
    fnIn,           \* input of the path functions (pure-function specification)
    fnOut,          \* their result
    upd,            \* state of the electron-updater object and its dialogs
    updEvents,      \* the 'update-event' payloads handed to sendToRenderer
    bus,            \* mainWindow, the windows and what each one received
    ui              \* the renderer: its variables, its controls, its requests

vars == <<platform, isPackaged, fsExists, jobs, sent, fnIn, fnOut, upd, updEvents,
          bus, ui>>

envVars == <<platform, isPackaged, fsExists>>
jobVars == <<jobs, sent>>
fnVars  == <<fnIn, fnOut>>
updVars == <<upd, updEvents>>

(***************************************************************************)
(* Bounds of the model.                                                    *)
(***************************************************************************)
MaxChunks == 1      \* 'data' events delivered per child process
MaxChecks == 2      \* update checks started in one run of the application
MaxWindows == 2     \* windows created in the life of the application
MaxEvents == 3      \* events published by the jobs and the updater
MaxProgress == 1    \* 'download-progress' events per download
MaxRequests == 2    \* 'processor:run' requests of the renderer not yet answered

Platforms == {"win32", "darwin", "linux"}

(***************************************************************************)
(* Text helpers.                                                           *)
(***************************************************************************)
Last(s) == s[Len(s)]
Front(s) == SubSeq(s, 1, Len(s) - 1)

\* String.prototype.toLowerCase on the letters the model uses.
LowerChar(c) ==
    CASE c = "X" -> "x"
      [] c = "L" -> "l"
      [] c = "S" -> "s"
      [] c = "R" -> "r"
      [] OTHER -> c

ToLowerCase(s) == [i \in 1..Len(s) |-> LowerChar(s[i])]

\* String.prototype.includes
Includes(s, t) ==
    \E i \in 1..(Len(s) - Len(t) + 1) : SubSeq(s, i, i + Len(t) - 1) = t

\* The largest element of a finite set of integers, 0 for the empty set.
MaxOf(S) == IF S = {} THEN 0 ELSE CHOOSE m \in S : \A n \in S : n <= m

(***************************************************************************)
(* Node's path module, for the platform at hand.  win32 treats both        *)
(* slashes as separators and writes backslashes; the inputs of the model   *)
(* carry no drive letter and no UNC prefix.                                *)
(***************************************************************************)
IsSep(c, plat) == c = "/" \/ (plat = "win32" /\ c = "\\")

OutSep(plat) == IF plat = "win32" THEN "\\" ELSE "/"

\* Index of the last character of the last path component (trailing
\* separators are skipped), 0 when there is none.
BaseEnd(p, plat) == MaxOf({i \in 1..Len(p) : ~IsSep(p[i], plat)})

\* Index of the first character of the last path component.
BaseStart(p, plat) ==
    MaxOf({i \in 1..BaseEnd(p, plat) : IsSep(p[i], plat)}) + 1

\* Index of the last dot of the last path component, 0 when there is none.
StartDot(p, plat) ==
    MaxOf({i \in BaseStart(p, plat)..BaseEnd(p, plat) : p[i] = "."})

\* Whether the last component has an extension: a dot that is not its first
\* character, the component not being "..".
HasExt(p, plat) ==
    LET e == BaseEnd(p, plat)
        s == BaseStart(p, plat)
        d == StartDot(p, plat)
    IN  /\ e # 0
        /\ d # 0
        /\ d # s
        /\ ~(p[s] = "." /\ d = e /\ d = s + 1)

\* path.extname
Extname(p, plat) ==
    IF HasExt(p, plat)
    THEN SubSeq(p, StartDot(p, plat), BaseEnd(p, plat))
    ELSE <<>>

\* path.parse(p).name
ParsedName(p, plat) ==
    IF HasExt(p, plat)
    THEN SubSeq(p, BaseStart(p, plat), StartDot(p, plat) - 1)
    ELSE SubSeq(p, BaseStart(p, plat), BaseEnd(p, plat))

\* path.dirname
Dirname(p, plat) ==
    LET hasRoot == Len(p) > 0 /\ IsSep(p[1], plat)
        end == MaxOf({k \in 2..Len(p) :
                        /\ IsSep(p[k], plat)
                        /\ \E m \in (k + 1)..Len(p) : ~IsSep(p[m], plat)})
    IN  IF Len(p) = 0 THEN <<".">>
        ELSE IF end = 0 THEN (IF hasRoot THEN <<p[1]>> ELSE <<".">>)
        ELSE IF hasRoot /\ end = 2 /\ plat # "win32" THEN <<"/", "/">>
        ELSE SubSeq(p, 1, end - 1)

\* The components of p between separators (empty components included).
RECURSIVE SplitPath(_, _)
SplitPath(p, plat) ==
    IF \A i \in 1..Len(p) : ~IsSep(p[i], plat)
    THEN <<p>>
    ELSE LET k == CHOOSE i \in 1..Len(p) :
                    /\ IsSep(p[i], plat)
                    /\ \A j \in 1..(i - 1) : ~IsSep(p[j], plat)
         IN  <<SubSeq(p, 1, k - 1)>> \o SplitPath(SubSeq(p, k + 1, Len(p)), plat)

\* normalizeString: drops "" and ".", resolves ".." against the component
\* before it, keeps a leading ".." only when the path is relative.
RECURSIVE NormalizeSegs(_, _, _)
NormalizeSegs(segs, acc, allowAboveRoot) ==
    IF segs = <<>> THEN acc
    ELSE LET s == Head(segs)
             rest == Tail(segs)
         IN  IF s = <<>> \/ s = <<".">>
             THEN NormalizeSegs(rest, acc, allowAboveRoot)
             ELSE IF s = <<".", ".">>
             THEN IF acc # <<>> /\ Last(acc) # <<".", ".">>
                  THEN NormalizeSegs(rest, Front(acc), allowAboveRoot)
                  ELSE IF allowAboveRoot
                  THEN NormalizeSegs(rest, Append(acc, s), allowAboveRoot)
                  ELSE NormalizeSegs(rest, acc, allowAboveRoot)
             ELSE NormalizeSegs(rest, Append(acc, s), allowAboveRoot)

RECURSIVE JoinSegs(_, _)
JoinSegs(segs, sep) ==
    IF segs = <<>> THEN <<>>
    ELSE IF Len(segs) = 1 THEN segs[1]
    ELSE segs[1] \o <<sep>> \o JoinSegs(Tail(segs), sep)

\* path.normalize
Normalize(p, plat) ==
    LET isAbsolute == Len(p) > 0 /\ IsSep(p[1], plat)
        trailing == Len(p) > 0 /\ IsSep(Last(p), plat)
        body == JoinSegs(NormalizeSegs(SplitPath(p, plat), <<>>, ~isAbsolute),
                         OutSep(plat))
    IN  IF Len(p) = 0 THEN <<".">>
        ELSE IF body = <<>>
        THEN (IF isAbsolute THEN <<OutSep(plat)>>
              ELSE IF trailing THEN <<".", OutSep(plat)>> ELSE <<".">>)
        ELSE (IF isAbsolute THEN <<OutSep(plat)>> ELSE <<>>)
             \o body
             \o (IF trailing THEN <<OutSep(plat)>> ELSE <<>>)

\* path.join of two parts
PathJoin(a, b, plat) ==
    IF a = <<>> /\ b = <<>> THEN <<".">>
    ELSE IF a = <<>> THEN Normalize(b, plat)
    ELSE IF b = <<>> THEN Normalize(a, plat)
    ELSE Normalize(a \o <<OutSep(plat)>> \o b, plat)


(***************************************************************************)
(* Text constants of main.js.                                              *)
(***************************************************************************)
DotXlsx == <<".", "x", "l", "s", "x">>
ProcessedSuffix == <<"_", "p", "r", "o", "c", "e", "s", "s", "e", "d">> \o DotXlsx
PythonWord == <<"p", "y", "t", "h", "o", "n">>
Python3Word == PythonWord \o <<"3">>
PythonExe == PythonWord \o <<".", "e", "x", "e">>
ProcessorWord == <<"p", "r", "o", "c", "e", "s", "s", "o", "r">>
ProcessorExe == ProcessorWord \o <<".", "e", "x", "e">>
ProcessorPy == ProcessorWord \o <<".", "p", "y">>

\* Error messages.  A message built from a template carries its parameter.
MsgNoPath == <<"No se recibio la ruta del archivo.">>
MsgBadExt == <<"El archivo debe tener extension .xlsx">>
MsgNotPackaged(dir) ==
    <<"No se pudo encontrar un procesador Python empaquetado en ", dir>>
MsgNoExecutable(command) == <<"El ejecutable no existe: ", command>>
MsgEnoent(command) ==
    <<"No se pudo encontrar el ejecutable: ", command,
      ". Verifica que Python este instalado correctamente.">>
MsgError9009 ==
    <<"Error 9009: No se pudo ejecutar el comando Python. Verifica que Python este en el PATH del sistema.">>
MsgSpawn(code) == <<"spawn ", code>>
MsgExitGeneric(code) == <<"Python finalizo con codigo ", code>>
MsgExit9009 ==
    <<"Error 9009: No se pudo encontrar o ejecutar Python. Verifica la instalacion.">>
MsgExit1 ==
    <<"Error en el procesamiento Python. Revisa el archivo de entrada.">>
MsgRunning(base) == <<"Ejecutando procesamiento con Python (", base, ")">>

NoError == <<>>

(***************************************************************************)
(* handleProcessRequest: validation and the output path.                   *)
(***************************************************************************)
\* The extension test of the request, without the lower-casing.
IsXlsx_caseSensitive(p, plat) == Extname(p, plat) = DotXlsx

\* path.extname(filePath).toLowerCase() === '.xlsx'
IsXlsx(p, plat) == ToLowerCase(Extname(p, plat)) = DotXlsx

\* The error handleProcessRequest throws before doing anything, or NoError.
ValidationError(p, plat) ==
    IF p = <<>> THEN MsgNoPath
    ELSE IF ~IsXlsx(p, plat) THEN MsgBadExt
    ELSE NoError

\* The output path built from the extension as written in the input.
OutputFile_keepExt(p, plat) ==
    PathJoin(Dirname(p, plat),
             ParsedName(p, plat) \o SubSeq(ProcessedSuffix, 1, 10) \o Extname(p, plat),
             plat)

\* path.join(path.dirname(filePath), `${path.parse(filePath).name}_processed.xlsx`)
OutputFile(p, plat) ==
    PathJoin(Dirname(p, plat), ParsedName(p, plat) \o ProcessedSuffix, plat)

\* path.basename of a path
Basename(p, plat) == SubSeq(p, BaseStart(p, plat), BaseEnd(p, plat))

(***************************************************************************)
(* The backend resolver.                                                   *)
(***************************************************************************)
\* path.join of several parts
JoinAll(parts, plat) == Normalize(JoinSegs(parts, OutSep(plat)), plat)

\* projectRoot and process.resourcesPath: one directory each, at the root.
ProjectRoot(plat) == <<OutSep(plat), "a", "p", "p">>
ResourcesPath(plat) == <<OutSep(plat), "r", "e", "s">>

\* path.join(projectRoot, 'python', 'processor.py'), per platform
ScriptPathOf ==
    [plat \in Platforms |->
        JoinAll(<<ProjectRoot(plat), PythonWord, ProcessorPy>>, plat)]

ScriptPath(plat) == ScriptPathOf[plat]

DotVenv == <<".", "v", "e", "n", "v">>
ScriptsWord == <<"S", "c", "r", "i", "p", "t", "s">>
BinWord == <<"b", "i", "n">>
DistWord == <<"d", "i", "s", "t">>

\* The directory of the interpreters of the local environment, as parts:
\* path.join(venvDir, 'Scripts') on Windows, path.join(venvDir, 'bin') elsewhere.
BinariesDirParts(plat) ==
    <<ProjectRoot(plat), DotVenv, IF plat = "win32" THEN ScriptsWord ELSE BinWord>>

\* Candidates that ignore the platform: python3 then python everywhere.
DevCandidatesOf_noWindows ==
    [plat \in Platforms |->
        <<JoinAll(BinariesDirParts(plat) \o <<Python3Word>>, plat),
          JoinAll(BinariesDirParts(plat) \o <<PythonWord>>, plat)>>]

\* The candidates of resolveDevPython, in order.  (path.join of a joined
\* path and a name is path.join of all the parts.)
DevCandidatesOf ==
    [plat \in Platforms |->
        IF plat = "win32"
        THEN <<JoinAll(BinariesDirParts(plat) \o <<PythonExe>>, plat),
               JoinAll(BinariesDirParts(plat) \o <<PythonWord>>, plat)>>
        ELSE <<JoinAll(BinariesDirParts(plat) \o <<Python3Word>>, plat),
               JoinAll(BinariesDirParts(plat) \o <<PythonWord>>, plat)>>]

DevCandidates(plat) == DevCandidatesOf[plat]

PackagedDirParts(plat) == <<ResourcesPath(plat), PythonWord>>

\* path.join(resourcesPath, 'python'), per platform
PackagedDirOf == [plat \in Platforms |-> JoinAll(PackagedDirParts(plat), plat)]

PackagedDir(plat) == PackagedDirOf[plat]

ExecutableName(plat) == IF plat = "win32" THEN ProcessorExe ELSE ProcessorWord

\* executableCandidates of getPythonInvocation, in order.
ExecutableCandidatesOf ==
    [plat \in Platforms |->
        <<JoinAll(PackagedDirParts(plat) \o <<ExecutableName(plat)>>, plat),
          JoinAll(PackagedDirParts(plat) \o <<BinWord, ExecutableName(plat)>>, plat),
          JoinAll(PackagedDirParts(plat) \o <<DistWord, ExecutableName(plat)>>, plat),
          JoinAll(PackagedDirParts(plat) \o <<DistWord, ProcessorWord, ExecutableName(plat)>>, plat),
          JoinAll(PackagedDirParts(plat) \o <<ProcessorWord, ExecutableName(plat)>>, plat)>>]

ExecutableCandidates(plat) == ExecutableCandidatesOf[plat]

\* path.join(packagedDir, 'processor.py'), per platform
PackagedScriptOf ==
    [plat \in Platforms |-> JoinAll(PackagedDirParts(plat) \o <<ProcessorPy>>, plat)]

PackagedScript(plat) == PackagedScriptOf[plat]

\* A search that keeps the last candidate that exists instead of the first.
FirstExisting_last(cands, fs) ==
    LET hits == {i \in 1..Len(cands) : cands[i] \in fs}
    IN  IF hits = {} THEN <<>>
        ELSE <<cands[CHOOSE i \in hits : \A k \in hits : i >= k]>>

\* Array.prototype.find / the for loop: the first candidate that exists,
\* as a sequence of length 0 or 1.
FirstExisting(cands, fs) ==
    LET hits == {i \in 1..Len(cands) : cands[i] \in fs}
    IN  IF hits = {} THEN <<>>
        ELSE <<cands[CHOOSE i \in hits : \A k \in hits : i <= k]>>

\* platform === 'win32' ? 'python' : 'python3'
PythonCmd(plat) == IF plat = "win32" THEN PythonWord ELSE Python3Word

Invocation(command, args) == [ok |-> TRUE, command |-> command, args |-> args, error |-> NoError]
NoInvocation(message) == [ok |-> FALSE, command |-> <<>>, args |-> <<>>, error |-> message]

\* A resolver that, packaged, falls back to the interpreter name even when
\* the packaged script is missing.
GetPythonInvocation_noThrow(plat, packaged, fs) ==
    IF ~packaged
    THEN LET localPython == FirstExisting(DevCandidates(plat), fs)
         IN  IF localPython # <<>>
             THEN Invocation(localPython[1], <<ScriptPath(plat)>>)
             ELSE Invocation(PythonCmd(plat), <<ScriptPath(plat)>>)
    ELSE LET found == FirstExisting(ExecutableCandidates(plat), fs)
         IN  IF found # <<>>
             THEN Invocation(found[1], <<>>)
             ELSE Invocation(PythonCmd(plat), <<PackagedScript(plat)>>)

\* getPythonInvocation
GetPythonInvocation(plat, packaged, fs) ==
    IF ~packaged
    THEN LET localPython == FirstExisting(DevCandidates(plat), fs)
         IN  IF localPython # <<>>
             THEN Invocation(localPython[1], <<ScriptPath(plat)>>)
             ELSE Invocation(PythonCmd(plat), <<ScriptPath(plat)>>)
    ELSE LET found == FirstExisting(ExecutableCandidates(plat), fs)
         IN  IF found # <<>>
             THEN Invocation(found[1], <<>>)
             ELSE IF PackagedScript(plat) \in fs
             THEN Invocation(PythonCmd(plat), <<PackagedScript(plat)>>)
             ELSE NoInvocation(MsgNotPackaged(PackagedDir(plat)))

\* Every path the resolver probes.
ProbedPaths(plat, packaged) ==
    IF packaged
    THEN {ExecutableCandidates(plat)[i] : i \in 1..5} \cup {PackagedScript(plat)}
    ELSE {DevCandidates(plat)[i] : i \in 1..2}


(***************************************************************************)
(* Events handed to sendToRenderer.  `origin` is not part of the payload:  *)
(* it records which callback published a log message.                      *)
(***************************************************************************)
EvState(status, input, output, error) ==
    [channel |-> "processing-state", status |-> status, input |-> input,
     output |-> output, error |-> error]

EvLog(level, message, origin) ==
    [channel |-> "log-message", level |-> level, message |-> message,
     origin |-> origin]

IsState(e, status) == e.channel = "processing-state" /\ e.status = status
IsTerminal(e) == IsState(e, "completed") \/ IsState(e, "failed")
IsBackendLog(e) == e.channel = "log-message" /\ e.origin \in {"stdout", "stderr"}

(***************************************************************************)
(* One 'processor:run' invocation.                                         *)
(*   st       where the IPC handler is: "idle" (not invoked), "awaiting"   *)
(*            (suspended at await runPythonProcessor), "done"              *)
(*   settled  state of the promise of runPythonProcessor                   *)
(*   reason   the error the promise was rejected with                      *)
(*   child    the child process: "none", "spawnfail" (could not start,     *)
(*            'error' not yet delivered), "errored" ('error' delivered),   *)
(*            "running", "exited" ('exit' happened, the streams may still  *)
(*            hold data), "closed" ('close' delivered)                     *)
(*   code     exit code of the child: <<n>>, or <<>> for null              *)
(*   spawned  the calls of spawn(): records of command and arguments       *)
(*   result   what the IPC handler gave its caller                         *)
(***************************************************************************)
NoResult == [kind |-> "none", success |-> FALSE, value |-> <<>>]
Returned(success, value) == [kind |-> "returned", success |-> success, value |-> value]
Raised(message) == [kind |-> "raised", success |-> FALSE, value |-> message]

NoReason == [message |-> <<>>, hasCode |-> FALSE, code |-> <<>>]

IdleJob ==
    [st |-> "idle", input |-> <<>>, output |-> <<>>, settled |-> "pending",
     reason |-> NoReason, child |-> "none", errno |-> "", code |-> <<>>,
     chunks |-> 0, spawned |-> <<>>, result |-> NoResult]

\* The invocations of 'processor:run' that are modelled.  An invocation shares
\* no state with another one: its paths, its promise and its child live in
\* the closure of its own call.
Jobs == {1}

\* A job and the events published for it travel together through a handler.
JE(job, evs) == [job |-> job, evs |-> evs]

\* sendToRenderer(channel, payload), for the events of one job.
SendToRenderer(je, ev) == JE(je.job, Append(je.evs, ev))

\* An IPC handler without the try/catch: the failure reaches the caller.
HandlerCatch_rethrow(je, message) ==
    JE([je.job EXCEPT !.st = "done", !.result = Raised(message)], je.evs)

\* The catch block of ipcMain.handle('processor:run').
HandlerCatch(je, message) ==
    LET je2 == SendToRenderer(je, EvState("failed", <<>>, <<>>, message))
    IN  JE([je2.job EXCEPT !.st = "done", !.result = Returned(FALSE, message)],
           je2.evs)

\* The tail of handleProcessRequest without the 'completed' event.
HandlerReturn_silent(je, processedPath) ==
    JE([je.job EXCEPT !.st = "done", !.result = Returned(TRUE, processedPath)],
       je.evs)

\* The tail of handleProcessRequest after the await, and the handler's return.
HandlerReturn(je, processedPath) ==
    LET je2 == SendToRenderer(je, EvState("completed", <<>>, processedPath, <<>>))
    IN  JE([je2.job EXCEPT !.st = "done", !.result = Returned(TRUE, processedPath)],
           je2.evs)

\* resolve(value): the first settlement wins; the handler suspended at the
\* await continues in the same turn of the event loop.
Resolve(je, value) ==
    IF je.job.settled # "pending" THEN je
    ELSE HandlerReturn(JE([je.job EXCEPT !.settled = "resolved"], je.evs), value)

\* A rejection that is acted upon even when the job was settled before.
Reject_resettle(je, err) ==
    HandlerCatch(JE([je.job EXCEPT !.settled = "rejected", !.reason = err], je.evs),
                 err.message)

\* reject(err)
Reject(je, err) ==
    IF je.job.settled # "pending" THEN je
    ELSE HandlerCatch(JE([je.job EXCEPT !.settled = "rejected", !.reason = err],
                         je.evs),
                      err.message)

\* new Error(message)
Err(message) == [message |-> message, hasCode |-> FALSE, code |-> <<>>]

\* new Error(message) with err.code = code
ErrWithCode(message, code) == [message |-> message, hasCode |-> TRUE, code |-> code]

(***************************************************************************)
(* The child process.                                                      *)
(***************************************************************************)
\* What spawn() can do: start the child, fail asynchronously with an errno
\* ('error' event), or throw.
SpawnOutcomes == {"ok", "ENOENT", "EACCES", "throw"}

\* Exit codes of a child that started; <<>> is null (killed by a signal).
ExitCodes == {<<0>>, <<1>>, <<2>>, <<9009>>, <<>>}

\* The code 'close' carries after a failed spawn: the negative errno.
ErrnoCode(errno) == IF errno = "ENOENT" THEN <<-2>> ELSE <<-13>>

Streams == {"stdout", "stderr"}

Chunks == {<<" ", "\n">>, <<"o", "k", "\n">>, <<" ", "n", "o", " ">>}

IsSpace(c) == c \in {" ", "\n", "\t", "\r"}

\* Stream handlers that forget to trim the chunk.
Trim_none(s) == s

\* String.prototype.trim
Trim(s) ==
    LET keep == {i \in 1..Len(s) : ~IsSpace(s[i])}
    IN  IF keep = {} THEN <<>>
        ELSE SubSeq(s, CHOOSE i \in keep : \A k \in keep : i <= k, MaxOf(keep))

\* stdout -> info, stderr -> error
StreamLevel(stream) == IF stream = "stdout" THEN "info" ELSE "error"

\* The 'data' listeners of stdout and stderr.
DataHandler(je, stream, data) ==
    LET message == Trim(data)
    IN  IF message # <<>>
        THEN SendToRenderer(je, EvLog(StreamLevel(stream), message, stream))
        ELSE je

\* An 'error' listener that passes error.message on, whatever the code.
SpawnErrorMessage_generic(errno, command) == MsgSpawn(errno)

\* The message of the 'error' listener.
SpawnErrorMessage(errno, command) ==
    IF errno = "ENOENT" THEN MsgEnoent(command)
    ELSE IF errno = "9009" THEN MsgError9009
    ELSE MsgSpawn(errno)

\* The 'error' listener of the child.
ErrorHandler(je, errno) ==
    LET errorMessage == SpawnErrorMessage(errno, je.job.spawned[1].command)
    IN  Reject(SendToRenderer(je, EvLog("error", errorMessage, "main")),
               Err(errorMessage))

\* The message of a nonzero exit, without the branch for code 1.
ExitMessage_no1(code) ==
    IF code = <<9009>> THEN MsgExit9009
    ELSE MsgExitGeneric(code)

\* The message of a nonzero exit.
ExitMessage(code) ==
    IF code = <<9009>> THEN MsgExit9009
    ELSE IF code = <<1>> THEN MsgExit1
    ELSE MsgExitGeneric(code)

\* The 'close' listener of the child.
CloseHandler(je, code) ==
    IF code = <<0>>
    THEN Resolve(je, je.job.output)
    ELSE Reject(je, ErrWithCode(ExitMessage(code), code))

\* The listener that settles the job, registered on 'exit'.
SettleOn_exit == "exit"

\* pyProcess.on('close', ...): the event that settles the job.
SettleOn == "close"


(***************************************************************************)
(* runPythonProcessor and handleProcessRequest, up to the await.           *)
(***************************************************************************)
MsgSpawnThrew == <<"spawn threw">>

\* A call of spawn with the two paths in the wrong order.
SpawnCall_swapped(inv, inputPath, outputPath, plat) ==
    [command |-> inv.command,
     args |-> inv.args \o <<outputPath, inputPath>>,
     shell |-> (plat = "win32")]

\* The call of spawn(command, allArgs, options).
SpawnCall(inv, inputPath, outputPath, plat) ==
    [command |-> inv.command,
     args |-> inv.args \o <<inputPath, outputPath>>,
     shell |-> (plat = "win32")]

\* A guard that forgets the exemption of the interpreter names.
CommandGuardRejects_existsOnly(command, fs) == command \notin fs

\* if (!fs.existsSync(command) && !command.includes('python'))
CommandGuardRejects(command, fs) ==
    command \notin fs /\ ~Includes(command, PythonWord)

\* The executor of the promise of runPythonProcessor.
RunPythonProcessor(je, inputPath, outputPath, plat, packaged, fs, outcome) ==
    LET inv == GetPythonInvocation(plat, packaged, fs)
        je1 == SendToRenderer(je, EvLog("info", MsgRunning(Basename(inputPath, plat)), "main"))
        je2 == JE([je1.job EXCEPT !.spawned =
                       Append(@, SpawnCall(inv, inputPath, outputPath, plat))],
                  je1.evs)
    IN  IF ~inv.ok
        THEN Reject(je, Err(inv.error))
        ELSE IF CommandGuardRejects(inv.command, fs)
        THEN Reject(je1, Err(MsgNoExecutable(inv.command)))
        ELSE IF outcome = "throw"
        THEN Reject(je2, Err(MsgSpawnThrew))
        ELSE IF outcome = "ok"
        THEN JE([je2.job EXCEPT !.child = "running"], je2.evs)
        ELSE JE([je2.job EXCEPT !.child = "spawnfail", !.errno = outcome], je2.evs)

\* A handleProcessRequest that resolves the backend before it publishes
\* 'running', and publishes nothing but the failure when resolution fails.
HandleProcessRequest_resolveFirst(je, filePath, plat, packaged, fs, outcome) ==
    LET verr == ValidationError(filePath, plat)
        outputFile == OutputFile(filePath, plat)
        inv == GetPythonInvocation(plat, packaged, fs)
        je1 == SendToRenderer(
                   JE([je.job EXCEPT !.output = outputFile], je.evs),
                   EvState("running", filePath, outputFile, <<>>))
        je2 == RunPythonProcessor(je1, filePath, outputFile, plat, packaged, fs, outcome)
    IN  IF verr # NoError
        THEN HandlerCatch(je, verr)
        ELSE IF ~inv.ok
        THEN HandlerCatch(
                 JE([je.job EXCEPT !.output = outputFile, !.settled = "rejected",
                                   !.reason = Err(inv.error)], je.evs),
                 inv.error)
        ELSE IF je2.job.settled = "pending"
        THEN JE([je2.job EXCEPT !.st = "awaiting"], je2.evs)
        ELSE je2

\* handleProcessRequest as called by the IPC handler, up to the point where
\* the handler is suspended or has returned.
HandleProcessRequest(je, filePath, plat, packaged, fs, outcome) ==
    LET verr == ValidationError(filePath, plat)
        outputFile == OutputFile(filePath, plat)
        je1 == SendToRenderer(
                   JE([je.job EXCEPT !.output = outputFile], je.evs),
                   EvState("running", filePath, outputFile, <<>>))
        je2 == RunPythonProcessor(je1, filePath, outputFile, plat, packaged, fs, outcome)
    IN  IF verr # NoError
        THEN HandlerCatch(je, verr)
        ELSE IF je2.job.settled = "pending"
        THEN JE([je2.job EXCEPT !.st = "awaiting"], je2.evs)
        ELSE je2

(***************************************************************************)
(* The event bus: mainWindow, createMainWindow and sendToRenderer.         *)
(*   app         "starting", "running", "quitting" (app.quit() was         *)
(*               called), "quit"                                           *)
(*   mainWindow  the variable: 0 for null/undefined, else a window         *)
(*   open        the windows that exist (BrowserWindow.getAllWindows())    *)
(*   created     windows created so far; windows are numbered from 1       *)
(*   loaded      windows whose page finished loading                       *)
(*   received    per window, the events webContents.send gave it           *)
(*   published   every call of sendToRenderer, in order, with the window   *)
(*               that existed when it was made (0 for none)                *)
(***************************************************************************)
BusOff ==
    [app |-> "starting", mainWindow |-> 0, open |-> {}, created |-> 0,
     loaded |-> {}, received |-> <<>>, published |-> <<>>]

Channels == {"log-message", "processing-state", "update-event"}

\* The window that exists, 0 when there is none.
Attached(b) == IF b.open = {} THEN 0 ELSE CHOOSE w \in b.open : TRUE

\* createMainWindow: mainWindow = new BrowserWindow(...)
CreateMainWindow(b) ==
    LET w == b.created + 1
    IN  [b EXCEPT !.mainWindow = w, !.open = @ \cup {w}, !.created = w,
                  !.received = Append(@, <<>>)]

\* A 'closed' listener that keeps the reference to the window.
ClosedHandler_keep(b) == b

\* mainWindow.on('closed', ...): mainWindow = null
ClosedHandler(b) == [b EXCEPT !.mainWindow = 0]

\* app.on('window-all-closed', ...): app.quit() except on macOS
WindowAllClosed(b, plat) ==
    IF b.open = {} /\ plat # "darwin" /\ b.app = "running"
    THEN [b EXCEPT !.app = "quitting"]
    ELSE b

\* sendToRenderer(channel, payload): the payload is the serial number of
\* the call.
SendToWindow(b, channel) ==
    LET ev == [channel |-> channel, serial |-> Len(b.published) + 1]
        b1 == [b EXCEPT !.published = Append(@, [ev |-> ev, attached |-> Attached(b)])]
    IN  IF b.mainWindow # 0
        THEN [b1 EXCEPT !.received[b.mainWindow] = Append(@, ev)]
        ELSE b1


(***************************************************************************)
MaxFiles == 1       \* files that exist among the paths the resolver probes

InDirs == {<<>>, <<"d", "/">>, <<"/">>, <<"d", "/", "/">>,
           <<"d", "/", ".", ".", "/">>, <<"d", "\\">>}
InStems == {<<>>, <<"a">>, <<"R">>, <<"a", ".", "b">>, <<".">>}
InExts == {DotXlsx, <<".", "X", "L", "S", "X">>, <<".", "X", "l", "s", "x">>,
           <<".", "x", "l", "s">>, <<".", "t", "x", "t">>, <<>>,
           DotXlsx \o <<"/">>, DotXlsx \o <<"x">>, <<"x", "l", "s", "x">>}

\* The paths given to the path functions.
Paths == {d \o s \o e : d \in InDirs, s \in InStems, e \in InExts}

\* The paths given to 'processor:run'.
JobPaths == {<<>>,
             <<"n", "o", "t", "e", "s", ".", "t", "x", "t">>,
             DotXlsx,
             <<"a">> \o DotXlsx,
             <<"d", "/", "R", ".", "X", "L", "S", "X">>}

FsChoices(plat, packaged) ==
    {S \in SUBSET ProbedPaths(plat, packaged) : Cardinality(S) <= MaxFiles}

(***************************************************************************)
(* The renderer: its variables, the controls it enables and disables, and  *)
(* its requests to 'processor:run'.                                        *)
(*   selectedFilePath  the variable: <<>> for null                         *)
(*   isProcessing      the variable                                        *)
(*   convertDisabled   convertButton.disabled                              *)
(*   browseDisabled    browseButton.disabled                               *)
(*   dropzoneDisabled  the class 'disabled' of the dropzone                *)
(*   dialogOpen        handleBrowse awaits the file dialog                 *)
(*   requests          processFile calls the main process has not taken    *)
(*   awaited           processFile calls taken and not yet answered        *)
(*   ignored           handleConvert returned early because isProcessing   *)
(*                     was true, during the conversion in flight           *)
(* The page starts with no file selected and the convert button disabled.  *)
(***************************************************************************)
UiOff ==
    [selectedFilePath |-> <<>>, isProcessing |-> FALSE, convertDisabled |-> TRUE,
     browseDisabled |-> FALSE, dropzoneDisabled |-> FALSE, dialogOpen |-> FALSE,
     requests |-> <<>>, awaited |-> 0, ignored |-> FALSE]

\* event.dataTransfer.files[0]: a File with its name and its path, or none.
NoFile == [present |-> FALSE, name |-> <<>>, path |-> <<>>]
File(name, path) == [present |-> TRUE, name |-> name, path |-> path]

\* String.prototype.endsWith.
EndsWith(s, t) ==
    /\ Len(t) <= Len(s)
    /\ SubSeq(s, Len(s) - Len(t) + 1, Len(s)) = t

\* setSelectedFile(filePath): a path enables the convert button.
SetSelectedFile(u, filePath) ==
    [u EXCEPT !.selectedFilePath = filePath,
              !.convertDisabled = (filePath = <<>>)]

\* sanitizeFile(file): the path of the file, or <<>> for null.
SanitizeFile(file) ==
    IF ~file.present THEN <<>>
    ELSE IF ~EndsWith(ToLowerCase(file.name), DotXlsx) THEN <<>>
    ELSE IF file.path = <<>> THEN <<>>
    ELSE file.path

\* enableProcessingUi(running).
EnableProcessingUi(u, running) ==
    [u EXCEPT !.isProcessing = running,
              !.convertDisabled = running \/ u.selectedFilePath = <<>>,
              !.browseDisabled = running,
              !.dropzoneDisabled = running]

\* The 'drop' listener of the dropzone.
DropHandler(u, file) ==
    LET filePath == SanitizeFile(file)
    IN  IF filePath # <<>> THEN SetSelectedFile(u, filePath) ELSE u

\* handleBrowse after the await: the dialog gave a path, or <<>> for undefined.
HandleBrowseResume(u, filePath) ==
    LET u1 == [u EXCEPT !.dialogOpen = FALSE]
    IN  IF filePath # <<>> THEN SetSelectedFile(u1, filePath) ELSE u1

\* A handleConvert that only asks for a selected file.
HandleConvert_noGuard(u) ==
    IF u.selectedFilePath = <<>>
    THEN u
    ELSE [EnableProcessingUi(u, TRUE) EXCEPT
              !.requests = Append(@, u.selectedFilePath)]

\* handleConvert up to the await: the guard, enableProcessingUi(true) and
\* the call of processFile(selectedFilePath).
HandleConvert(u) ==
    IF u.selectedFilePath = <<>> \/ u.isProcessing
    THEN [u EXCEPT !.ignored = u.isProcessing]
    ELSE [EnableProcessingUi(u, TRUE) EXCEPT
              !.requests = Append(@, u.selectedFilePath)]

\* An invocation that gives up and answers while the job is still awaited.
ResultAvailable_timeout(job) == job.st \in {"awaiting", "done"}

\* await window.carteraApi.processFile(...): the invocation is answered once
\* the handler of 'processor:run' has returned or raised.
ResultAvailable(job) == job.st = "done"

\* handleConvert after the await: enableProcessingUi(false) unless the
\* invocation was rejected, in which case the function ends at the await.
HandleConvertResume(u, result) ==
    LET u1 == [u EXCEPT !.awaited = @ - 1, !.ignored = FALSE]
    IN  IF result.kind = "raised" THEN u1 ELSE EnableProcessingUi(u1, FALSE)

(***************************************************************************)
(* Specification of the conversion jobs.                                   *)
(***************************************************************************)
\* The updater before app.whenReady: electron-updater's defaults, no
\* listener registered, nothing checked or downloaded.
\*   app        "starting", "running", "quit"
\*   checking   "none", or who started the check in flight: "startup", "manual"
\*   download   "none", "downloading", "downloaded", "failed"
\*   quitHandler   an update has been downloaded: electron-updater has
\*                 registered its handler of the application's quit
\*   dlgDownload, dlgInstall   consent dialogs that are open
\*   installed  "no", "quitAndInstall", "onQuit"
\*   manualPending   'updater:check-for-updates' handlers awaiting the check
\*   manualResults   what those handlers returned: "success" or "failure"
\* and counters of what happened: checks started, 'update-available' events,
\* answers to the dialogs, downloads started (by downloadUpdate() and by the
\* library itself), calls of quitAndInstall().
UpdOff ==
    [app |-> "starting", autoDownload |-> TRUE, autoInstallOnAppQuit |-> TRUE,
     listeners |-> FALSE, checking |-> "none", download |-> "none",
     progress |-> 0, quitHandler |-> FALSE, dlgDownload |-> 0, dlgInstall |-> 0, installed |-> "no",
     checks |-> 0, availables |-> 0, consentsDownload |-> 0,
     declinesDownload |-> 0, downloadsStarted |-> 0, autoDownloads |-> 0,
     consentsInstall |-> 0, quitAndInstalls |-> 0, manualPending |-> 0,
     manualResults |-> <<>>]

Init ==
    /\ platform \in Platforms
    /\ isPackaged \in BOOLEAN
    /\ fsExists \in FsChoices(platform, isPackaged)
    /\ jobs = [j \in Jobs |-> IdleJob]
    /\ sent = [j \in Jobs |-> <<>>]
    /\ fnIn = <<>>
    /\ fnOut = <<>>
    /\ upd = UpdOff
    /\ updEvents = <<>>
    /\ bus = BusOff
    /\ ui = UiOff

\* The job the next invocation of 'processor:run' gets: invocations are
\* numbered in the order they arrive.
NextJob == Cardinality({j \in Jobs : jobs[j].st # "idle"}) + 1

Put(j, je) ==
    /\ jobs' = [jobs EXCEPT ![j] = je.job]
    /\ sent' = [sent EXCEPT ![j] = je.evs]

\* ipcMain.handle('processor:run'): the renderer asks for a conversion.
ProcessorRun(filePath, outcome) ==
    LET j == NextJob
    IN  /\ j \in Jobs
        /\ outcome = "ENOENT" =>
               GetPythonInvocation(platform, isPackaged, fsExists).command \notin fsExists
        /\ Put(j, HandleProcessRequest(
                      JE([jobs[j] EXCEPT !.input = filePath], sent[j]),
                      filePath, platform, isPackaged, fsExists, outcome))
        /\ UNCHANGED <<envVars, bus, ui, fnVars, updVars>>

\* A chunk arrives on stdout or stderr of the child of job j.
ChildData(j, stream, data) ==
    /\ jobs[j].child \in {"running", "exited"}
    /\ jobs[j].chunks < MaxChunks
    /\ Put(j, DataHandler(JE([jobs[j] EXCEPT !.chunks = @ + 1], sent[j]), stream, data))
    /\ UNCHANGED <<envVars, bus, ui, fnVars, updVars>>

\* The child of job j exits ('exit'); its streams may still hold data.
ChildExit(j, code) ==
    /\ jobs[j].child = "running"
    /\ LET je == JE([jobs[j] EXCEPT !.child = "exited", !.code = code], sent[j])
       IN  Put(j, IF SettleOn = "exit" THEN CloseHandler(je, code) ELSE je)
    /\ UNCHANGED <<envVars, bus, ui, fnVars, updVars>>

\* The child of job j could not be started ('error').
ChildError(j) ==
    /\ jobs[j].child = "spawnfail"
    /\ Put(j, ErrorHandler(JE([jobs[j] EXCEPT !.child = "errored"], sent[j]),
                           jobs[j].errno))
    /\ UNCHANGED <<envVars, bus, ui, fnVars, updVars>>

\* The streams of the child of job j have ended ('close').
ChildClose(j) ==
    /\ jobs[j].child \in {"exited", "errored"}
    /\ LET code == IF jobs[j].child = "errored"
                   THEN ErrnoCode(jobs[j].errno) ELSE jobs[j].code
           je == JE([jobs[j] EXCEPT !.child = "closed", !.code = code], sent[j])
       IN  Put(j, IF SettleOn = "close" THEN CloseHandler(je, code) ELSE je)
    /\ UNCHANGED <<envVars, bus, ui, fnVars, updVars>>

Next ==
    \/ \E p \in JobPaths, o \in SpawnOutcomes : ProcessorRun(p, o)
    \/ \E j \in Jobs, s \in Streams, d \in Chunks : ChildData(j, s, d)
    \/ \E j \in Jobs, c \in ExitCodes : ChildExit(j, c)
    \/ \E j \in Jobs : ChildError(j)
    \/ \E j \in Jobs : ChildClose(j)

Spec == Init /\ [][Next]_vars

(***************************************************************************)
(* Specification of the renderer driving the conversion: the user browses, *)
(* drops files and clicks convert; the main process takes the requests and *)
(* runs the jobs; the answers come back to handleConvert.  The application *)
(* runs unpackaged with no interpreter of its own.                         *)
(***************************************************************************)
\* What the file dialog can give: a path, or <<>> when it is cancelled.
DialogResults == {<<>>, <<"a">> \o DotXlsx, DotXlsx}

\* The files that are dropped.
DroppedFiles ==
    {NoFile,
     File(<<"b">> \o DotXlsx, <<"d", "/", "b">> \o DotXlsx),
     File(<<"R", ".", "X", "L", "S", "X">>, <<"d", "/", "R", ".", "X", "L", "S", "X">>),
     File(<<"n", ".", "t", "x", "t">>, <<"d", "/", "n", ".", "t", "x", "t">>),
     File(<<"a">> \o DotXlsx, <<>>)}

InitUi ==
    /\ platform \in Platforms
    /\ isPackaged = FALSE
    /\ fsExists = {}
    /\ jobs = [j \in Jobs |-> IdleJob]
    /\ sent = [j \in Jobs |-> <<>>]
    /\ fnIn = <<>>
    /\ fnOut = <<>>
    /\ upd = UpdOff
    /\ updEvents = <<>>
    /\ bus = BusOff
    /\ ui = UiOff

InFlight == Len(ui.requests) + ui.awaited

\* A click on the browse button: handleBrowse opens the dialog, which is
\* modal to the window.
UiBrowseClick ==
    /\ ~ui.browseDisabled
    /\ ~ui.dialogOpen
    /\ ui' = [ui EXCEPT !.dialogOpen = TRUE]
    /\ UNCHANGED <<envVars, bus, jobVars, fnVars, updVars>>

\* The dialog is closed: handleBrowse continues.
UiBrowseReturn(filePath) ==
    /\ ui.dialogOpen
    /\ ui' = HandleBrowseResume(ui, filePath)
    /\ UNCHANGED <<envVars, bus, jobVars, fnVars, updVars>>

\* A file is dropped on the dropzone.
UiDrop(file) ==
    /\ ~ui.dialogOpen
    /\ ui' = DropHandler(ui, file)
    /\ UNCHANGED <<envVars, bus, jobVars, fnVars, updVars>>

\* A click on the convert button, which a disabled button does not deliver.
UiConvertClick ==
    /\ ~ui.convertDisabled
    /\ ~ui.dialogOpen
    /\ InFlight < MaxRequests
    /\ ui' = HandleConvert(ui)
    /\ UNCHANGED <<envVars, bus, jobVars, fnVars, updVars>>

\* ipcMain.handle('processor:run') takes the oldest request of the renderer.
UiProcessorRun(outcome) ==
    LET j == NextJob
        filePath == Head(ui.requests)
    IN  /\ ui.requests # <<>>
        /\ j \in Jobs
        /\ Put(j, HandleProcessRequest(
                      JE([jobs[j] EXCEPT !.input = filePath], sent[j]),
                      filePath, platform, isPackaged, fsExists, outcome))
        /\ ui' = [ui EXCEPT !.requests = Tail(@), !.awaited = @ + 1]
        /\ UNCHANGED <<envVars, bus, fnVars, updVars>>

\* The answer of the invocation reaches the renderer: handleConvert
\* continues.  Nothing of the invocation is observed afterwards.
UiConvertReturn(j) ==
    /\ ui.awaited > 0
    /\ ResultAvailable(jobs[j])
    /\ ui' = HandleConvertResume(ui, jobs[j].result)
    /\ jobs' = [jobs EXCEPT ![j] = IdleJob]
    /\ sent' = [sent EXCEPT ![j] = <<>>]
    /\ UNCHANGED <<envVars, bus, fnVars, updVars>>

NextUi ==
    \/ UiBrowseClick
    \/ \E p \in DialogResults : UiBrowseReturn(p)
    \/ \E f \in DroppedFiles : UiDrop(f)
    \/ UiConvertClick
    \/ \E o \in SpawnOutcomes : UiProcessorRun(o)
    \/ \E j \in Jobs, c \in ExitCodes : ChildExit(j, c)
    \/ \E j \in Jobs : ChildError(j)
    \/ \E j \in Jobs : ChildClose(j)
    \/ \E j \in Jobs : UiConvertReturn(j)

SpecUi == InitUi /\ [][NextUi]_vars

\* The answer of an invocation is delivered and the continuation of
\* handleConvert is run by the event loop of the renderer.
SpecUiFair == SpecUi /\ WF_vars(\E j \in Jobs : UiConvertReturn(j))


(***************************************************************************)
(* Specification of the path functions of a request: the input is drawn    *)
(* in the initial state, the one action applies handleProcessRequest's     *)
(* validation and output-path computation to it.                           *)
(***************************************************************************)
NotApplied == [applied |-> FALSE, valid |-> FALSE, error |-> <<>>, output |-> <<>>]

InitPath ==
    /\ platform \in Platforms
    /\ isPackaged = FALSE
    /\ fsExists = {}
    /\ jobs = [j \in Jobs |-> IdleJob]
    /\ sent = [j \in Jobs |-> <<>>]
    /\ fnIn \in Paths
    /\ fnOut = NotApplied
    /\ upd = UpdOff
    /\ updEvents = <<>>
    /\ bus = BusOff
    /\ ui = UiOff

\* Lines 218-228 of handleProcessRequest applied to fnIn.
ApplyPath ==
    /\ ~fnOut.applied
    /\ LET verr == ValidationError(fnIn, platform)
       IN  fnOut' = [applied |-> TRUE,
                     valid |-> (verr = NoError),
                     error |-> verr,
                     output |-> IF verr = NoError
                                THEN OutputFile(fnIn, platform) ELSE <<>>]
    /\ UNCHANGED <<envVars, bus, ui, jobVars, fnIn, updVars>>

NextPath == ApplyPath

SpecPath == InitPath /\ [][NextPath]_vars

(***************************************************************************)
(* Specification of the backend resolver: the platform, the mode and the   *)
(* files that exist among the probed paths are drawn in the initial state, *)
(* the one action applies getPythonInvocation to them.                     *)
(***************************************************************************)
NotResolved == [applied |-> FALSE, inv |-> NoInvocation(<<>>)]

InitResolve ==
    /\ platform \in Platforms
    /\ isPackaged \in BOOLEAN
    /\ fsExists \in SUBSET ProbedPaths(platform, isPackaged)
    /\ jobs = [j \in Jobs |-> IdleJob]
    /\ sent = [j \in Jobs |-> <<>>]
    /\ fnIn = <<>>
    /\ fnOut = NotResolved
    /\ upd = UpdOff
    /\ updEvents = <<>>
    /\ bus = BusOff
    /\ ui = UiOff

\* getPythonInvocation() called in this environment.
ApplyResolver ==
    /\ ~fnOut.applied
    /\ fnOut' = [applied |-> TRUE,
                 inv |-> GetPythonInvocation(platform, isPackaged, fsExists)]
    /\ UNCHANGED <<envVars, bus, ui, jobVars, fnIn, updVars>>

NextResolve == ApplyResolver

SpecResolve == InitResolve /\ [][NextResolve]_vars

(***************************************************************************)
(* Specification of the event bus: windows are created, load and close,    *)
(* and the jobs and the updater publish events at any moment.              *)
(***************************************************************************)
InitBus ==
    /\ platform \in Platforms
    /\ isPackaged = FALSE
    /\ fsExists = {}
    /\ jobs = [j \in Jobs |-> IdleJob]
    /\ sent = [j \in Jobs |-> <<>>]
    /\ fnIn = <<>>
    /\ fnOut = <<>>
    /\ upd = UpdOff
    /\ updEvents = <<>>
    /\ bus = BusOff
    /\ ui = UiOff

\* app.whenReady().then(...): createMainWindow()
BusAppReady ==
    /\ bus.app = "starting"
    /\ bus' = CreateMainWindow([bus EXCEPT !.app = "running"])
    /\ UNCHANGED <<envVars, ui, jobVars, fnVars, updVars>>

\* A job or the updater calls sendToRenderer.
BusPublish(channel) ==
    /\ bus.app \in {"running", "quitting"}
    /\ Len(bus.published) < MaxEvents
    /\ bus' = SendToWindow(bus, channel)
    /\ UNCHANGED <<envVars, ui, jobVars, fnVars, updVars>>

\* 'did-finish-load' of the page of window w: the start-up log message.
WindowDidFinishLoad(w) ==
    /\ w \in bus.open \ bus.loaded
    /\ bus' = SendToWindow([bus EXCEPT !.loaded = @ \cup {w}], "log-message")
    /\ UNCHANGED <<envVars, ui, jobVars, fnVars, updVars>>

\* The user closes window w: 'closed', then 'window-all-closed'.
WindowClosed(w) ==
    /\ w \in bus.open
    /\ bus' = WindowAllClosed(ClosedHandler([bus EXCEPT !.open = @ \ {w}]), platform)
    /\ UNCHANGED <<envVars, ui, jobVars, fnVars, updVars>>

\* app.on('activate', ...) on macOS: a new window when none exists.
Activate ==
    /\ platform = "darwin"
    /\ bus.app = "running"
    /\ bus.created < MaxWindows
    /\ bus' = IF bus.open = {} THEN CreateMainWindow(bus) ELSE bus
    /\ UNCHANGED <<envVars, ui, jobVars, fnVars, updVars>>

\* The application that was asked to quit exits.
BusAppExit ==
    /\ bus.app = "quitting"
    /\ bus' = [bus EXCEPT !.app = "quit"]
    /\ UNCHANGED <<envVars, ui, jobVars, fnVars, updVars>>

NextBus ==
    \/ BusAppReady
    \/ \E c \in Channels : BusPublish(c)
    \/ \E w \in 1..MaxWindows : WindowDidFinishLoad(w)
    \/ \E w \in 1..MaxWindows : WindowClosed(w)
    \/ Activate
    \/ BusAppExit

SpecBus == InitBus /\ [][NextBus]_vars


(***************************************************************************)
(***************************************************************************)
(* Specification of the guard before spawn: a command and the files that   *)
(* exist are drawn in the initial state; the one action applies the guard  *)
(* to that command and runs a request in that environment.                 *)
(***************************************************************************)
\* Commands that no resolution returns.
ForeignCommands ==
    {<<"/", "o", "p", "t", "/", "t", "o", "o", "l">>,
     <<"/", "o", "p", "t", "/", "P", "y", "t", "h", "o", "n">>,
     <<"p", "y">>}

GuardCommands(plat, packaged) ==
    ForeignCommands \cup ProbedPaths(plat, packaged) \cup {PythonWord, Python3Word}

GuardNotApplied ==
    [applied |-> FALSE, rejects |-> FALSE, inv |-> NoInvocation(<<>>),
     invRejects |-> FALSE]

InitGuard ==
    /\ platform \in Platforms
    /\ isPackaged \in BOOLEAN
    /\ fsExists \in {S \in SUBSET (ForeignCommands \cup ProbedPaths(platform, isPackaged)) :
                         Cardinality(S) <= MaxFiles}
    /\ jobs = [j \in Jobs |-> IdleJob]
    /\ sent = [j \in Jobs |-> <<>>]
    /\ fnIn \in GuardCommands(platform, isPackaged)
    /\ fnOut = GuardNotApplied
    /\ upd = UpdOff
    /\ updEvents = <<>>
    /\ bus = BusOff
    /\ ui = UiOff

\* The guard of lines 149-154 applied to fnIn, and to the command of the
\* resolver by a request for a valid file whose spawn succeeds.
ApplyGuard ==
    /\ ~fnOut.applied
    /\ LET inv == GetPythonInvocation(platform, isPackaged, fsExists)
            j == NextJob
       IN  /\ fnOut' = [applied |-> TRUE,
                        rejects |-> CommandGuardRejects(fnIn, fsExists),
                        inv |-> inv,
                        invRejects |-> inv.ok /\ CommandGuardRejects(inv.command, fsExists)]
           /\ Put(j, HandleProcessRequest(
                         JE([jobs[j] EXCEPT !.input = <<"a">> \o DotXlsx], sent[j]),
                         <<"a">> \o DotXlsx, platform, isPackaged, fsExists, "ok"))
    /\ UNCHANGED <<envVars, bus, ui, fnIn, updVars>>

NextGuard == ApplyGuard

SpecGuard == InitGuard /\ [][NextGuard]_vars

(***************************************************************************)
(* Properties of the conversion jobs (specification Spec).                 *)
(***************************************************************************)
Started(j) == jobs[j].st # "idle"
Done(j) == jobs[j].st = "done"

HasEvent(j, status) == \E i \in 1..Len(sent[j]) : IsState(sent[j][i], status)

IsStateEvent(e) == e.channel = "processing-state"
StateEvents(j) == SelectSeq(sent[j], IsStateEvent)

\* The extension of the input is '.xlsx' in some mix of upper and lower case.
XlsxAnyCase(p) == ToLowerCase(Extname(p, platform)) = DotXlsx

\* C1: a request whose path is empty or whose extension is not '.xlsx'
\* (compared case-insensitively) fails with a validation error, spawns no
\* process and publishes no 'running' event; a request whose extension
\* matches passes validation (its 'running' event is published and its
\* result is no validation error).
C1_ValidationGate ==
    \A j \in Jobs : Started(j) =>
        IF jobs[j].input = <<>> \/ ~XlsxAnyCase(jobs[j].input)
        THEN /\ Done(j)
             /\ jobs[j].result =
                    Returned(FALSE, IF jobs[j].input = <<>> THEN MsgNoPath ELSE MsgBadExt)
             /\ jobs[j].spawned = <<>>
             /\ jobs[j].child = "none"
             /\ ~HasEvent(j, "running")
        ELSE /\ HasEvent(j, "running")
             /\ jobs[j].result.value \notin {MsgNoPath, MsgBadExt}

C1_Witness ==
    \E j \in Jobs :
        /\ Done(j)
        /\ Extname(jobs[j].input, platform) = <<".", "t", "x", "t">>
        /\ jobs[j].result.kind = "returned"

\* C2: in the events of a job, every 'completed' or 'failed' event has a
\* 'running' event before it.
C2_RunningBeforeTerminal ==
    \A j \in Jobs : \A i \in 1..Len(sent[j]) :
        IsTerminal(sent[j][i]) =>
            \E k \in 1..(i - 1) : IsState(sent[j][k], "running")

\* C3: the handler of 'processor:run' never raises; a finished request
\* returned {success: true, outputPath} exactly when the promise of the job
\* was resolved (the child closed with code 0), and otherwise
\* {success: false, error} with the message of the failure.
C3_NeverRaises ==
    \A j \in Jobs :
        /\ jobs[j].result.kind # "raised"
        /\ Done(j) =>
            /\ jobs[j].result.kind = "returned"
            /\ jobs[j].result.success <=> jobs[j].settled = "resolved"
            /\ jobs[j].result.success =>
                   /\ jobs[j].code = <<0>>
                   /\ jobs[j].result.value = jobs[j].output
            /\ ~jobs[j].result.success =>
                   /\ jobs[j].result.value # <<>>
                   /\ jobs[j].result.value =
                          IF jobs[j].settled = "rejected"
                          THEN jobs[j].reason.message
                          ELSE ValidationError(jobs[j].input, platform)
        /\ jobs[j].settled # "pending" => Done(j)

C3_Witness ==
    \E j \in Jobs :
        /\ Done(j)
        /\ jobs[j].settled = "rejected"
        /\ jobs[j].child = "errored"
        /\ jobs[j].result = Returned(FALSE, MsgSpawn("EACCES"))

\* C7: in the events of a job, no log message read from the child's stdout
\* or stderr comes after the job's 'completed' or 'failed' event.
C7_NoLogAfterTerminal ==
    \A j \in Jobs : \A i \in 1..Len(sent[j]) : \A k \in (i + 1)..Len(sent[j]) :
        IsTerminal(sent[j][i]) => ~IsBackendLog(sent[j][k])

C7_Witness ==
    \E j \in Jobs : \E i \in 1..Len(sent[j]) : \E k \in (i + 1)..Len(sent[j]) :
        /\ IsBackendLog(sent[j][i])
        /\ IsTerminal(sent[j][k])
        /\ jobs[j].child = "closed"

\* C8: when the child closes with exit code 0, the request returns
\* {success: true, outputPath} with the computed output path, and the
\* processing-state events of the job are exactly 'running' then 'completed'
\* carrying that path.
C8_ExitZero ==
    \A j \in Jobs :
        (jobs[j].child = "closed" /\ jobs[j].code = <<0>>) =>
            /\ jobs[j].output = OutputFile(jobs[j].input, platform)
            /\ jobs[j].result = Returned(TRUE, jobs[j].output)
            /\ StateEvents(j) =
                   <<EvState("running", jobs[j].input, jobs[j].output, <<>>),
                     EvState("completed", <<>>, jobs[j].output, <<>>)>>

C8_Witness ==
    \E j \in Jobs :
        /\ jobs[j].child = "closed"
        /\ jobs[j].code = <<0>>
        /\ Extname(jobs[j].input, platform) = <<".", "X", "L", "S", "X">>
        /\ jobs[j].result.success

\* The message the claim expects for a nonzero exit code.
C9_Expected(code) ==
    CASE code = <<1>> -> MsgExit1
      [] code = <<9009>> -> MsgExit9009
      [] OTHER -> MsgExitGeneric(code)

\* C9: when a child that started closes with a code other than 0 (null
\* included), the job fails with the classified message, the error carries
\* the code, and the last processing-state event is 'failed' with that
\* message; the messages of codes 1 and 9009 differ from each other and from
\* the generic message of their code, which includes the raw code.
C9_NonzeroExit ==
    /\ MsgExit1 # MsgExitGeneric(<<1>>)
    /\ MsgExit9009 # MsgExitGeneric(<<9009>>)
    /\ MsgExit1 # MsgExit9009
    /\ \A j \in Jobs :
        (jobs[j].child = "closed" /\ jobs[j].errno = "" /\ jobs[j].code # <<0>>) =>
            /\ jobs[j].settled = "rejected"
            /\ jobs[j].reason = ErrWithCode(C9_Expected(jobs[j].code), jobs[j].code)
            /\ jobs[j].result = Returned(FALSE, C9_Expected(jobs[j].code))
            /\ Last(StateEvents(j)) =
                   EvState("failed", <<>>, <<>>, C9_Expected(jobs[j].code))
            /\ ~HasEvent(j, "completed")

C9_Witness ==
    \E j \in Jobs :
        /\ jobs[j].child = "closed"
        /\ jobs[j].errno = ""
        /\ jobs[j].code = <<1>>
        /\ jobs[j].result = Returned(FALSE, MsgExit1)

\* No path the resolver probes, in either mode, exists.
NoCandidateExists ==
    \A q \in ProbedPaths(platform, TRUE) \cup ProbedPaths(platform, FALSE) :
        q \notin fsExists

\* C10 as claimed: when no candidate exists, in both modes a request that
\* passes validation fails without a spawn.
C10_Original ==
    \A j \in Jobs :
        (Started(j) /\ XlsxAnyCase(jobs[j].input) /\ NoCandidateExists) =>
            /\ jobs[j].spawned = <<>>
            /\ jobs[j].result = Returned(FALSE, MsgNotPackaged(PackagedDir(platform)))

\* C10 amended: when no candidate exists, a packaged application fails the
\* request with the not-found error before any spawn; in development mode
\* resolution does not fail: spawn is called once with the platform's
\* interpreter name and the project's script.
C10_NoCandidate ==
    \A j \in Jobs :
        (Started(j) /\ XlsxAnyCase(jobs[j].input) /\ NoCandidateExists) =>
            IF isPackaged
            THEN /\ Done(j)
                 /\ jobs[j].spawned = <<>>
                 /\ jobs[j].child = "none"
                 /\ jobs[j].result = Returned(FALSE, MsgNotPackaged(PackagedDir(platform)))
            ELSE /\ Len(jobs[j].spawned) = 1
                 /\ jobs[j].spawned[1].command = PythonCmd(platform)
                 /\ jobs[j].spawned[1].args =
                        <<ScriptPath(platform), jobs[j].input, jobs[j].output>>

C10_Witness ==
    \E j \in Jobs :
        /\ isPackaged
        /\ NoCandidateExists
        /\ XlsxAnyCase(jobs[j].input)
        /\ Done(j)
        /\ HasEvent(j, "failed")

\* The job failed: its handler returned {success: false, error}.
Failed(j) == Done(j) /\ ~jobs[j].result.success

IsErrorLog(e) == e.channel = "log-message" /\ e.level = "error"

\* C13 as claimed: every job that failed (validation, backend not found,
\* spawn error, nonzero exit) has, besides its 'failed' event and its failure
\* result, a log-message event of level 'error' among its events.
C13_ErrorsAlsoLogged ==
    \A j \in Jobs :
        Failed(j) =>
            /\ HasEvent(j, "failed")
            /\ \E i \in 1..Len(sent[j]) : IsErrorLog(sent[j][i])

\* The diagnosis the claim expects of a spawn that failed with errno.
C14_Diagnosis(errno, command) ==
    IF errno = "ENOENT"
    THEN <<"No se pudo encontrar el ejecutable: ", command,
           ". Verifica que Python este instalado correctamente.">>
    ELSE <<"spawn ", errno>>

\* C14: when the child cannot be started, the job fails with the diagnosis
\* of the spawn error, which for ENOENT names the executable that was not
\* found and differs from the message of any other launch failure; the
\* last processing-state event is 'failed' with that same diagnosis, and no
\* 'completed' event is published.  A spawn() that throws fails the job the
\* same way with the message of the exception.
C14_SpawnFailure ==
    \A j \in Jobs :
        /\ (jobs[j].errno # "" /\ jobs[j].child \in {"errored", "closed"}) =>
               LET diag == C14_Diagnosis(jobs[j].errno, jobs[j].spawned[1].command)
               IN  /\ Done(j)
                   /\ jobs[j].result = Returned(FALSE, diag)
                   /\ jobs[j].reason.message = diag
                   /\ Last(StateEvents(j)) = EvState("failed", <<>>, <<>>, diag)
                   /\ ~HasEvent(j, "completed")
                   /\ diag # C14_Diagnosis("EACCES", jobs[j].spawned[1].command)
                          <=> jobs[j].errno = "ENOENT"
        /\ (jobs[j].spawned # <<>> /\ jobs[j].child = "none") =>
               /\ Done(j)
               /\ jobs[j].result = Returned(FALSE, MsgSpawnThrew)
               /\ Last(StateEvents(j)) = EvState("failed", <<>>, <<>>, MsgSpawnThrew)
               /\ ~HasEvent(j, "completed")

C14_Witness ==
    \E j \in Jobs :
        /\ jobs[j].errno = "ENOENT"
        /\ jobs[j].child = "closed"
        /\ jobs[j].spawned[1].command = PythonCmd(platform)
        /\ HasEvent(j, "failed")

\* The text of each chunk without the white space around it.
C18_Trimmed(data) ==
    CASE data = <<" ", "\n">> -> <<>>
      [] data = <<"o", "k", "\n">> -> <<"o", "k">>
      [] data = <<" ", "n", "o", " ">> -> <<"n", "o">>

\* C18: every chunk read from the child's stdout or stderr publishes one
\* log-message event carrying the trimmed text when that text is not empty,
\* with level 'info' for stdout and 'error' for stderr, and publishes
\* nothing when the chunk is only white space.
C18_ChunkLogging ==
    [][\A j \in Jobs, stream \in Streams, data \in Chunks :
          ChildData(j, stream, data) =>
              sent'[j] =
                  IF C18_Trimmed(data) # <<>>
                  THEN Append(sent[j],
                              [channel |-> "log-message",
                               level |-> IF stream = "stdout" THEN "info" ELSE "error",
                               message |-> C18_Trimmed(data),
                               origin |-> stream])
                  ELSE sent[j]]_vars

C18_Witness ==
    \E j \in Jobs :
        /\ jobs[j].chunks = 1
        /\ jobs[j].child = "exited"
        /\ Len(sent[j]) = 3
        /\ sent[j][3] = EvLog("error", <<"n", "o">>, "stderr")

\* C19 as claimed: a 'running' event is published only after the backend
\* was resolved: a job whose resolution fails publishes no 'running' event
\* and spawns nothing.
C19_RunningAfterResolution ==
    \A j \in Jobs :
        (Started(j) /\ ~GetPythonInvocation(platform, isPackaged, fsExists).ok) =>
            /\ ~HasEvent(j, "running")
            /\ jobs[j].spawned = <<>>

\* C19 amended: within one job the steps run in the order validate, publish
\* 'running', resolve, spawn: every job that passes validation publishes
\* 'running' first, before the backend is resolved; a job whose resolution
\* fails has published 'running', then 'failed' with the not-found error and
\* nothing else, and it spawns nothing.
C19_RunningBeforeResolution ==
    \A j \in Jobs :
        LET inv == GetPythonInvocation(platform, isPackaged, fsExists)
        IN  /\ (Started(j) /\ XlsxAnyCase(jobs[j].input)) =>
                   /\ sent[j] # <<>>
                   /\ sent[j][1] = EvState("running", jobs[j].input, jobs[j].output, <<>>)
            /\ (Started(j) /\ ~XlsxAnyCase(jobs[j].input)) =>
                   /\ ~HasEvent(j, "running")
                   /\ jobs[j].spawned = <<>>
            /\ (Started(j) /\ XlsxAnyCase(jobs[j].input) /\ ~inv.ok) =>
                   /\ Done(j)
                   /\ sent[j] = <<EvState("running", jobs[j].input, jobs[j].output, <<>>),
                                  EvState("failed", <<>>, <<>>, inv.error)>>
                   /\ jobs[j].spawned = <<>>
                   /\ jobs[j].child = "none"
            /\ jobs[j].spawned # <<>> => (inv.ok /\ HasEvent(j, "running"))

C19_Witness ==
    \E j \in Jobs :
        /\ Done(j)
        /\ ~GetPythonInvocation(platform, isPackaged, fsExists).ok
        /\ HasEvent(j, "running")
        /\ HasEvent(j, "failed")
        /\ jobs[j].spawned = <<>>

\* C20: every call of spawn has the resolved command and the resolved
\* arguments followed by the input path and then the output path; spawn is
\* called at most once per job; the output path is the one of the job's
\* 'running' event, of its 'completed' event and of its success result.
C20_SpawnArguments ==
    \A j \in Jobs :
        LET inv == GetPythonInvocation(platform, isPackaged, fsExists)
        IN  /\ Len(jobs[j].spawned) <= 1
            /\ jobs[j].spawned # <<>> =>
                   /\ inv.ok
                   /\ StateEvents(j) # <<>>
                   /\ IsState(StateEvents(j)[1], "running")
                   /\ StateEvents(j)[1].input = jobs[j].input
                   /\ jobs[j].spawned[1].command = inv.command
                   /\ jobs[j].spawned[1].args =
                          inv.args \o <<jobs[j].input, StateEvents(j)[1].output>>
                   /\ \A i \in 1..Len(sent[j]) :
                          IsState(sent[j][i], "completed") =>
                              sent[j][i].output = StateEvents(j)[1].output
                   /\ jobs[j].result.success =>
                          jobs[j].result.value = StateEvents(j)[1].output
            /\ jobs[j].result.success => jobs[j].spawned # <<>>

C20_Witness ==
    \E j \in Jobs :
        /\ isPackaged
        /\ jobs[j].result.success
        /\ jobs[j].spawned[1].args = <<PackagedScript(platform), jobs[j].input, jobs[j].output>>
        /\ HasEvent(j, "completed")


(***************************************************************************)
(* Properties of the output path (specification SpecPath).                 *)
(***************************************************************************)
\* C6 as claimed: the output path is the directory of the input joined with
\* stem + '_processed' + the extension as written in the input path.
C6_Original ==
    (fnOut.applied /\ fnOut.valid) =>
        fnOut.output =
            PathJoin(Dirname(fnIn, platform),
                     ParsedName(fnIn, platform)
                         \o <<"_", "p", "r", "o", "c", "e", "s", "s", "e", "d">>
                         \o Extname(fnIn, platform),
                     platform)

\* The normalised directory of the input, as the prefix of a path in it.
C6_DirPrefix ==
    LET nd == Normalize(Dirname(fnIn, platform), platform)
    IN  IF nd = <<".">> THEN <<>>
        ELSE IF IsSep(Last(nd), platform) THEN nd
        ELSE nd \o <<OutSep(platform)>>

\* C6 amended: for every valid input the output path is derived from the
\* input path alone: the normalised directory of the input, then the stem
\* of the input suffixed with '_processed', then always the lower-case
\* extension '.xlsx', whatever the case of the input's extension.
C6_OutputPath ==
    (fnOut.applied /\ fnOut.valid) =>
        /\ fnOut.output =
               C6_DirPrefix
                   \o ParsedName(fnIn, platform)
                   \o <<"_", "p", "r", "o", "c", "e", "s", "s", "e", "d">>
                   \o <<".", "x", "l", "s", "x">>
        /\ Extname(fnOut.output, platform) = ToLowerCase(Extname(fnIn, platform))
        /\ ParsedName(fnOut.output, platform) =
               ParsedName(fnIn, platform)
                   \o <<"_", "p", "r", "o", "c", "e", "s", "s", "e", "d">>

C6_Witness ==
    /\ fnOut.applied
    /\ fnOut.valid
    /\ Extname(fnIn, platform) = <<".", "X", "L", "S", "X">>
    /\ Dirname(fnIn, platform) = <<"d">>
    /\ Extname(fnOut.output, platform) = <<".", "x", "l", "s", "x">>


(***************************************************************************)
(* The auto-updater: setupAutoUpdater and its listeners, the startup check *)
(* of app.whenReady, the 'updater:check-for-updates' handler, and the      *)
(* electron-updater object they drive.                                     *)
(***************************************************************************)
EvUpdate(type, detail) == [type |-> type, detail |-> detail]

\* sendToRenderer('update-event', payload)
SendUpdate(evs, ev) == Append(evs, ev)

Versions == {"1.1.0"}

UpdErrors == {"net::ERR"}

\* What the user does with a consent dialog: press the first button, press
\* the second one, or dismiss the dialog.
DialogChoices == {"accept", "later", "dismiss"}

\* result.response of dialog.showMessageBox with buttons [accept, 'Mas
\* tarde'] and defaultId 0: the index of the button pressed; a dismissed
\* dialog answers with the other button than the default one.
DialogResponse(choice) == IF choice = "accept" THEN 0 ELSE 1

\* A setup that leaves the download automatic.
SetupAutoUpdater_autoDownload(u) ==
    [u EXCEPT !.autoDownload = TRUE, !.autoInstallOnAppQuit = TRUE,
              !.listeners = TRUE]

\* setupAutoUpdater: the options and the listeners.
SetupAutoUpdater(u) ==
    [u EXCEPT !.autoDownload = FALSE, !.autoInstallOnAppQuit = TRUE,
              !.listeners = TRUE]

\* An install dialog whose answer is not looked at.
ShouldInstall_always(response) == TRUE

\* if (result.response === 0) of the install dialog
ShouldInstall(response) == response = 0

\* if (result.response === 0) of the download dialog
ShouldDownload(response) == response = 0

\* autoUpdater.checkForUpdatesAndNotify(): electron-updater starts a check
\* only in a packaged application, and joins a check already in flight.
StartCheck(u, who) ==
    IF isPackaged /\ u.checking = "none"
    THEN [u EXCEPT !.checking = who, !.checks = @ + 1]
    ELSE u

\* The update state of the application before app.whenReady.
InitUpd ==
    /\ platform \in Platforms
    /\ isPackaged \in BOOLEAN
    /\ fsExists = {}
    /\ jobs = [j \in Jobs |-> IdleJob]
    /\ sent = [j \in Jobs |-> <<>>]
    /\ fnIn = <<>>
    /\ fnOut = <<>>
    /\ upd = UpdOff
    /\ updEvents = <<>>
    /\ bus = BusOff
    /\ ui = UiOff

\* app.whenReady().then(...): setupAutoUpdater, then the startup check when
\* the application is packaged.
AppReady ==
    /\ upd.app = "starting"
    /\ LET u == [SetupAutoUpdater(upd) EXCEPT !.app = "running"]
       IN  upd' = IF isPackaged THEN StartCheck(u, "startup") ELSE u
    /\ UNCHANGED <<envVars, bus, ui, jobVars, fnVars, updEvents>>

\* Handlers of 'updater:check-for-updates' without the try/catch: a failed
\* check reaches the caller as a rejection.
ManualReturn_raise(u, result) ==
    [u EXCEPT !.manualPending = 0,
              !.manualResults =
                  @ \o [i \in 1..u.manualPending |->
                            IF result = "failure" THEN "raised" ELSE result]]

\* The handlers of 'updater:check-for-updates' that await the check in
\* flight return: {success: true, result} or {success: false, error}.
ManualReturn(u, result) ==
    [u EXCEPT !.manualPending = 0,
              !.manualResults = @ \o [i \in 1..u.manualPending |-> result]]

\* ipcMain.handle('updater:check-for-updates'): a manual check.  In an
\* application that is not packaged checkForUpdatesAndNotify() resolves to
\* null at once; otherwise the handler awaits the check.
ManualCheck ==
    /\ upd.app = "running"
    /\ upd.checks < MaxChecks
    /\ Len(upd.manualResults) + upd.manualPending < MaxChecks
    /\ upd' = IF isPackaged
              THEN [StartCheck(upd, "manual") EXCEPT !.manualPending = @ + 1]
              ELSE [upd EXCEPT !.manualResults = Append(@, "success")]
    /\ UNCHANGED <<envVars, bus, ui, jobVars, fnVars, updEvents>>

\* The check finds an update: the 'update-available' listener publishes the
\* event and opens the download dialog.  With autoDownload the library
\* starts the download itself.
UpdateAvailable(version) ==
    /\ upd.app = "running"
    /\ upd.checking # "none"
    /\ LET u == [ManualReturn(upd, "success") EXCEPT
                     !.checking = "none",
                     !.availables = @ + 1,
                     !.dlgDownload = @ + 1]
       IN  upd' = IF upd.autoDownload
                  THEN [u EXCEPT !.download = "downloading", !.progress = 0,
                                 !.downloadsStarted = @ + 1,
                                 !.autoDownloads = @ + 1]
                  ELSE u
    /\ updEvents' = SendUpdate(updEvents, EvUpdate("available", version))
    /\ UNCHANGED <<envVars, bus, ui, jobVars, fnVars>>

\* The check finds nothing: the 'update-not-available' listener.
UpdateNotAvailable ==
    /\ upd.app = "running"
    /\ upd.checking # "none"
    /\ upd' = [ManualReturn(upd, "success") EXCEPT !.checking = "none"]
    /\ updEvents' = SendUpdate(updEvents, EvUpdate("not-available", ""))
    /\ UNCHANGED <<envVars, bus, ui, jobVars, fnVars>>

\* An 'error' listener that starts the check again.
CheckError_retry(message) ==
    /\ upd.app = "running"
    /\ upd.checking # "none"
    /\ upd' = StartCheck([ManualReturn(upd, "failure") EXCEPT !.checking = "none"],
                         "startup")
    /\ updEvents' = SendUpdate(updEvents, EvUpdate("error", message))
    /\ UNCHANGED <<envVars, bus, ui, jobVars, fnVars>>

\* The check fails: the 'error' listener publishes the event and the
\* promise of the check is rejected; the startup check's catch publishes a
\* second event, a manual check returns {success: false, error}.
CheckError(message) ==
    /\ upd.app = "running"
    /\ upd.checking # "none"
    /\ upd' = [ManualReturn(upd, "failure") EXCEPT !.checking = "none"]
    /\ updEvents' =
           LET evs == SendUpdate(updEvents, EvUpdate("error", message))
           IN  IF upd.checking = "startup"
               THEN SendUpdate(evs, EvUpdate("error", "Error al buscar actualizaciones: " \o message))
               ELSE evs
    /\ UNCHANGED <<envVars, bus, ui, jobVars, fnVars>>

\* The user answers a download dialog; the continuation of showMessageBox
\* calls updater.downloadUpdate() on response 0.
AnswerDownloadDialog(choice) ==
    /\ upd.app = "running"
    /\ upd.dlgDownload > 0
    /\ LET u == [upd EXCEPT !.dlgDownload = @ - 1,
                            !.consentsDownload = IF choice = "accept" THEN @ + 1 ELSE @,
                            !.declinesDownload = IF choice = "accept" THEN @ ELSE @ + 1]
       IN  upd' = IF ShouldDownload(DialogResponse(choice))
                  THEN [u EXCEPT !.download = "downloading", !.progress = 0,
                                 !.downloadsStarted = @ + 1]
                  ELSE u
    /\ UNCHANGED <<envVars, bus, ui, jobVars, fnVars, updEvents>>

\* The 'download-progress' listener.
DownloadProgress ==
    /\ upd.app = "running"
    /\ upd.download = "downloading"
    /\ upd.progress < MaxProgress
    /\ upd' = [upd EXCEPT !.progress = @ + 1]
    /\ updEvents' = SendUpdate(updEvents, EvUpdate("progress", ""))
    /\ UNCHANGED <<envVars, bus, ui, jobVars, fnVars>>

\* The download completes: the 'update-downloaded' listener publishes the
\* event and opens the install dialog.
UpdateDownloaded(version) ==
    /\ upd.app = "running"
    /\ upd.download = "downloading"
    /\ upd' = [upd EXCEPT !.download = "downloaded", !.quitHandler = TRUE,
                          !.dlgInstall = @ + 1]
    /\ updEvents' = SendUpdate(updEvents, EvUpdate("downloaded", version))
    /\ UNCHANGED <<envVars, bus, ui, jobVars, fnVars>>

\* The download fails: the 'error' listener.
DownloadError(message) ==
    /\ upd.app = "running"
    /\ upd.download = "downloading"
    /\ upd' = [upd EXCEPT !.download = "failed"]
    /\ updEvents' = SendUpdate(updEvents, EvUpdate("error", message))
    /\ UNCHANGED <<envVars, bus, ui, jobVars, fnVars>>

\* The user answers an install dialog; the continuation of showMessageBox
\* calls updater.quitAndInstall() on response 0.
AnswerInstallDialog(choice) ==
    /\ upd.app = "running"
    /\ upd.dlgInstall > 0
    /\ LET u == [upd EXCEPT !.dlgInstall = @ - 1,
                            !.consentsInstall = IF choice = "accept" THEN @ + 1 ELSE @]
       IN  upd' = IF ShouldInstall(DialogResponse(choice))
                  THEN [u EXCEPT !.quitAndInstalls = @ + 1,
                                 !.app = "quit",
                                 !.installed = "quitAndInstall"]
                  ELSE u
    /\ UNCHANGED <<envVars, bus, ui, jobVars, fnVars, updEvents>>

\* The application quits (app.quit() of 'window-all-closed', or the user
\* quitting): with autoInstallOnAppQuit electron-updater installs an update
\* that was downloaded.
AppQuit ==
    /\ upd.app = "running"
    /\ upd' = [upd EXCEPT !.app = "quit",
                          !.installed =
                              IF upd.autoInstallOnAppQuit /\ upd.quitHandler
                              THEN "onQuit" ELSE @]
    /\ UNCHANGED <<envVars, bus, ui, jobVars, fnVars, updEvents>>

NextUpd ==
    \/ AppReady
    \/ ManualCheck
    \/ \E v \in Versions : UpdateAvailable(v)
    \/ UpdateNotAvailable
    \/ \E m \in UpdErrors : CheckError(m)
    \/ \E c \in DialogChoices : AnswerDownloadDialog(c)
    \/ DownloadProgress
    \/ \E v \in Versions : UpdateDownloaded(v)
    \/ \E m \in UpdErrors : DownloadError(m)
    \/ \E c \in DialogChoices : AnswerInstallDialog(c)
    \/ AppQuit

SpecUpd == InitUpd /\ [][NextUpd]_vars

(***************************************************************************)
(* Specification of a conversion job and the updater running side by side  *)
(* in a packaged application: the request handlers are registered by       *)
(* app.whenReady, the child's callbacks and the updater's events interleave *)
(* freely.                                                                 *)
(***************************************************************************)
InitApp ==
    /\ platform \in Platforms
    /\ isPackaged = TRUE
    /\ fsExists = {ExecutableCandidates(platform)[1]}
    /\ jobs = [j \in Jobs |-> IdleJob]
    /\ sent = [j \in Jobs |-> <<>>]
    /\ fnIn = <<>>
    /\ fnOut = <<>>
    /\ upd = UpdOff
    /\ updEvents = <<>>
    /\ bus = BusOff
    /\ ui = UiOff

\* 'processor:run' is handled once registerIpcHandlers has run.
AppProcessorRun(filePath, outcome) ==
    /\ upd.app = "running"
    /\ ProcessorRun(filePath, outcome)

NextApp ==
    \/ AppReady
    \/ ManualCheck
    \/ \E v \in Versions : UpdateAvailable(v)
    \/ \E m \in UpdErrors : CheckError(m)
    \/ \E c \in DialogChoices : AnswerDownloadDialog(c)
    \/ \E m \in UpdErrors : DownloadError(m)
    \/ AppProcessorRun(<<"a">> \o DotXlsx, "ok")
    \/ \E j \in Jobs, s \in Streams, d \in Chunks : ChildData(j, s, d)
    \/ \E j \in Jobs, c \in ExitCodes : ChildExit(j, c)
    \/ \E j \in Jobs : ChildClose(j)

SpecApp == InitApp /\ [][NextApp]_vars

ResolverSep == IF platform = "win32" THEN <<"\\">> ELSE <<"/">>

\* A path made of a root directory and the names below it.
RECURSIVE Under(_, _)
Under(root, names) ==
    IF names = <<>> THEN root
    ELSE Under(root \o ResolverSep \o Head(names), Tail(names))

\* The first candidate of a list that exists, as a set of zero or one index.
FirstHit(list) ==
    {i \in 1..Len(list) :
        /\ list[i] \in fsExists
        /\ \A k \in 1..(i - 1) : list[k] \notin fsExists}

C11_Exe ==
    IF platform = "win32"
    THEN <<"p", "r", "o", "c", "e", "s", "s", "o", "r", ".", "e", "x", "e">>
    ELSE <<"p", "r", "o", "c", "e", "s", "s", "o", "r">>

C11_Python == <<"p", "y", "t", "h", "o", "n">>

\* The executable under python/, python/bin/, python/dist/,
\* python/dist/processor/ and python/processor/ of the resources directory.
C11_List ==
    LET res == ResourcesPath(platform)
    IN  <<Under(res, <<C11_Python, C11_Exe>>),
          Under(res, <<C11_Python, <<"b", "i", "n">>, C11_Exe>>),
          Under(res, <<C11_Python, <<"d", "i", "s", "t">>, C11_Exe>>),
          Under(res, <<C11_Python, <<"d", "i", "s", "t">>,
                       <<"p", "r", "o", "c", "e", "s", "s", "o", "r">>, C11_Exe>>),
          Under(res, <<C11_Python, <<"p", "r", "o", "c", "e", "s", "s", "o", "r">>,
                       C11_Exe>>)>>

C11_Script ==
    Under(ResourcesPath(platform),
          <<C11_Python, <<"p", "r", "o", "c", "e", "s", "s", "o", "r", ".", "p", "y">>>>)

\* The interpreter name of the platform: python on Windows, python3 elsewhere.
InterpreterName ==
    IF platform = "win32" THEN C11_Python ELSE C11_Python \o <<"3">>

\* C11: in a packaged application the resolver returns the first existing
\* path of the ordered list of executable candidates as the command, with
\* no arguments; when none exists and the packaged script exists, the
\* interpreter name of the platform with the packaged script as its one
\* argument; when the script is missing too, it fails.
C11_PackagedResolution ==
    (fnOut.applied /\ isPackaged) =>
        IF FirstHit(C11_List) # {}
        THEN /\ fnOut.inv.ok
             /\ \A i \in FirstHit(C11_List) : fnOut.inv.command = C11_List[i]
             /\ fnOut.inv.args = <<>>
        ELSE IF C11_Script \in fsExists
        THEN /\ fnOut.inv.ok
             /\ fnOut.inv.command = InterpreterName
             /\ fnOut.inv.args = <<C11_Script>>
        ELSE /\ ~fnOut.inv.ok
             /\ fnOut.inv.error # NoError

C11_Witness ==
    /\ fnOut.applied
    /\ isPackaged
    /\ C11_List[1] \notin fsExists
    /\ C11_List[2] \in fsExists
    /\ C11_List[4] \in fsExists
    /\ C11_Script \in fsExists
    /\ fnOut.inv.command = C11_List[2]
    /\ fnOut.inv.args = <<>>

\* The interpreters of the local environment: .venv/Scripts/python.exe then
\* .venv/Scripts/python on Windows, .venv/bin/python3 then .venv/bin/python
\* elsewhere.
C12_List ==
    LET venv == <<".", "v", "e", "n", "v">>
        root == ProjectRoot(platform)
    IN  IF platform = "win32"
        THEN <<Under(root, <<venv, <<"S", "c", "r", "i", "p", "t", "s">>,
                             C11_Python \o <<".", "e", "x", "e">>>>),
               Under(root, <<venv, <<"S", "c", "r", "i", "p", "t", "s">>, C11_Python>>)>>
        ELSE <<Under(root, <<venv, <<"b", "i", "n">>, C11_Python \o <<"3">>>>),
               Under(root, <<venv, <<"b", "i", "n">>, C11_Python>>)>>

C12_Script ==
    Under(ProjectRoot(platform),
          <<C11_Python, <<"p", "r", "o", "c", "e", "s", "s", "o", "r", ".", "p", "y">>>>)

\* C12: in development mode the resolver returns the first existing path of
\* the ordered, platform-specific list of interpreters of the local
\* environment; when none exists, the interpreter name of the platform; the
\* arguments are always exactly the project's script, and resolution never
\* fails.
C12_DevResolution ==
    (fnOut.applied /\ ~isPackaged) =>
        /\ fnOut.inv.ok
        /\ fnOut.inv.args = <<C12_Script>>
        /\ IF FirstHit(C12_List) # {}
           THEN \A i \in FirstHit(C12_List) : fnOut.inv.command = C12_List[i]
           ELSE fnOut.inv.command = InterpreterName

C12_Witness ==
    /\ fnOut.applied
    /\ ~isPackaged
    /\ platform = "win32"
    /\ C12_List[1] \in fsExists
    /\ C12_List[2] \in fsExists
    /\ fnOut.inv.command = C12_List[1]
    /\ fnOut.inv.args = <<C12_Script>>


C17_UpdateFailuresIsolated ==
    [][(\E m \in UpdErrors : CheckError(m) \/ DownloadError(m)) =>
          /\ jobs' = jobs
          /\ sent' = sent
          /\ upd'.app = "running"
          /\ upd'.installed = "no"
          /\ Len(updEvents') > Len(updEvents)
          /\ SubSeq(updEvents', 1, Len(updEvents)) = updEvents
          /\ \A i \in (Len(updEvents) + 1)..Len(updEvents') :
                 updEvents'[i].type = "error"
          /\ upd'.checking # upd.checking => upd'.manualPending = 0
          /\ upd'.manualResults =
                 upd.manualResults \o
                     [i \in 1..(upd.manualPending - upd'.manualPending) |-> "failure"]]_vars

C17_Witness ==
    \E j \in Jobs :
        /\ jobs[j].st = "awaiting"
        /\ jobs[j].child = "exited"
        /\ StateEvents(j) = <<EvState("running", jobs[j].input, jobs[j].output, <<>>)>>
        /\ upd.download = "failed"
        /\ upd.manualResults = <<"failure">>
        /\ \E i \in 1..Len(updEvents) : updEvents[i].type = "error"


(***************************************************************************)
(* Properties of the event bus (specification SpecBus).                    *)
(***************************************************************************)
HasReceived(w, ev) ==
    \E k \in 1..Len(bus.received[w]) : bus.received[w][k] = ev

\* C15: at most one window exists; every published event is received by
\* the window that existed when it was published and by no other window,
\* once; an event published while no window existed is received by no
\* window, then or later, a window created afterwards included; a window
\* receives only published events, in the order of their publication.
C15_NoBuffering ==
    /\ Cardinality(bus.open) <= 1
    /\ \A i \in 1..Len(bus.published) : \A w \in 1..bus.created :
           HasReceived(w, bus.published[i].ev) <=> (w = bus.published[i].attached)
    /\ \A w \in 1..bus.created :
           /\ \A k \in 1..Len(bus.received[w]) :
                  \E i \in 1..Len(bus.published) :
                      bus.published[i].ev = bus.received[w][k]
           /\ \A k, l \in 1..Len(bus.received[w]) :
                  k < l => bus.received[w][k].serial < bus.received[w][l].serial

C15_Witness ==
    /\ bus.open = {2}
    /\ \E i \in 1..Len(bus.published) :
           /\ bus.published[i].attached = 0
           /\ ~HasReceived(1, bus.published[i].ev)
           /\ ~HasReceived(2, bus.published[i].ev)
           /\ \E k \in (i + 1)..Len(bus.published) :
                  HasReceived(2, bus.published[k].ev)


(***************************************************************************)
(* Further properties of the conversion jobs (specification Spec).         *)
(***************************************************************************)
TerminalEvents(j) == SelectSeq(sent[j], IsTerminal)

\* C21: the status of a job is monotonic and terminal exactly once: a job
\* that has not returned has no terminal event; a job that returned has
\* exactly one, 'completed' or 'failed', it is the last processing-state
\* event (no 'running' follows it), at most one 'running' precedes it, and
\* the result is a success exactly when the terminal event is 'completed'.
\* This holds in every order of the child's callbacks, 'error' followed by
\* 'close' included.
C21_TerminalOnce ==
    \A j \in Jobs :
        /\ Len(TerminalEvents(j)) = IF Done(j) THEN 1 ELSE 0
        /\ Len(SelectSeq(StateEvents(j), LAMBDA e : IsState(e, "running"))) <= 1
        /\ Done(j) =>
               /\ IsTerminal(Last(StateEvents(j)))
               /\ \A i \in 1..(Len(StateEvents(j)) - 1) :
                      IsState(StateEvents(j)[i], "running")
               /\ jobs[j].result.kind = "returned"
               /\ jobs[j].result.success <=> HasEvent(j, "completed")
               /\ ~jobs[j].result.success <=> HasEvent(j, "failed")

C21_Witness ==
    \E j \in Jobs :
        /\ jobs[j].errno = "EACCES"
        /\ jobs[j].child = "closed"
        /\ jobs[j].code = <<-13>>
        /\ Len(TerminalEvents(j)) = 1
        /\ HasEvent(j, "failed")


(***************************************************************************)
(* Properties of the guard before spawn (specification SpecGuard).         *)
(***************************************************************************)
\* The text of the command has the six letters of 'python' in a row.
C25_ContainsPython(c) ==
    \E i \in 1..Len(c) :
        /\ i + 5 <= Len(c)
        /\ <<c[i], c[i + 1], c[i + 2], c[i + 3], c[i + 4], c[i + 5]>>
               = <<"p", "y", "t", "h", "o", "n">>

\* C25: the guard rejects a command exactly when it does not exist and its
\* text does not contain 'python'; the command of every invocation the
\* resolver returns, in either mode, contains 'python', so the guard does
\* not reject it and spawn is called with it; when resolution fails nothing
\* is spawned.
C25_GuardNeverRejectsResolved ==
    fnOut.applied =>
        /\ fnOut.rejects <=> (fnIn \notin fsExists /\ ~C25_ContainsPython(fnIn))
        /\ fnOut.inv.ok =>
               /\ C25_ContainsPython(fnOut.inv.command)
               /\ ~fnOut.invRejects
               /\ \A j \in Jobs :
                      /\ Len(jobs[j].spawned) = 1
                      /\ jobs[j].spawned[1].command = fnOut.inv.command
                      /\ jobs[j].child = "running"
        /\ ~fnOut.inv.ok => \A j \in Jobs : jobs[j].spawned = <<>>

C25_Witness ==
    /\ fnOut.applied
    /\ fnOut.rejects
    /\ fnIn = <<"/", "o", "p", "t", "/", "P", "y", "t", "h", "o", "n">>
    /\ fnOut.inv.ok
    /\ fnOut.inv.command \notin fsExists
    /\ \A j \in Jobs : jobs[j].child = "running"


(***************************************************************************)
(* Properties of the renderer (specifications SpecUi and SpecUiFair).      *)
(***************************************************************************)
\* C22: driven through the renderer, at most one 'processor:run' request
\* is unanswered at any time, whatever files were selected or dropped and
\* however often convert was clicked; a click on convert while isProcessing
\* is true issues no request; a request is unanswered only while
\* isProcessing is true.
C22_NewRequest == Len(ui'.requests) + ui'.awaited > Len(ui.requests) + ui.awaited

C22_SingleFlight ==
    /\ [](Len(ui.requests) + ui.awaited <= 1)
    /\ [](Len(ui.requests) + ui.awaited = 1 => ui.isProcessing)
    /\ [][C22_NewRequest => ~ui.isProcessing /\ ui'.isProcessing]_vars

C22_Witness ==
    /\ ui.ignored
    /\ ui.isProcessing
    /\ ~ui.convertDisabled
    /\ ui.awaited = 1
    /\ \A j \in Jobs : jobs[j].child = "running"

\* C23: the convert button is disabled in every reachable state of the
\* renderer in which isProcessing is true or no file is selected.
C23_ConvertDisabled ==
    (ui.isProcessing \/ ui.selectedFilePath = <<>>) => ui.convertDisabled

\* C24: a job has no timeout and cannot be cancelled.  As long as the child
\* has delivered neither 'close' nor 'error' the request is unanswered, the
\* renderer is processing and the last state published is 'running', and no
\* step answers the request or changes isProcessing in such a state; once
\* the child has delivered 'close' or 'error' the request is answered and
\* isProcessing becomes false.
C24_Pending(j) == jobs[j].child \in {"spawnfail", "running", "exited"}

C24_Emitted(j) == jobs[j].child \in {"errored", "closed"}

C24_NoTimeout ==
    /\ [](\A j \in Jobs :
             C24_Pending(j) =>
                 /\ jobs[j].st = "awaiting"
                 /\ jobs[j].result.kind = "none"
                 /\ ui.awaited = 1
                 /\ ui.isProcessing
                 /\ IsState(Last(StateEvents(j)), "running"))
    /\ [][ui'.awaited < ui.awaited \/ ui'.isProcessing # ui.isProcessing =>
               \A j \in Jobs : ~C24_Pending(j)]_vars
    /\ \A j \in Jobs :
           (C24_Emitted(j) /\ ui.awaited = 1) ~> (ui.awaited = 0 /\ ~ui.isProcessing)

C24_Witness ==
    /\ ui.isProcessing
    /\ ui.awaited = 1
    /\ \E j \in Jobs :
           /\ jobs[j].child = "closed"
           /\ jobs[j].code = <<2>>
           /\ jobs[j].result.kind = "returned"
====
